---- MODULE Spec2Model ----
(***************************************************************************)
(* Model of src/main.rs: one run of main(), which resolves two ledger      *)
(* objects, builds a programmable transaction of two inputs and two        *)
(* commands, packages it with a gas coin, signs it and submits it once.    *)
(* The ledger, the coin query, the key store and the network's answer to   *)
(* the submission are the environment and are chosen nondeterministically. *)
(***************************************************************************)
EXTENDS Naturals, Sequences, FiniteSets

\* ---------------------------------------------------------------- bounds
MaxVersion == 2
MaxGasPrice == 2

\* ------------------------------------------------------ program constants
game_room_id == "0x5250"
object_id == "0xb28e"
game_card_id == "0x440b"
package_id == "0xc746"
is_mutable == TRUE
gas_budget == 10000000

\* ------------------------------------------------------------ environment
Addresses == {"A1", "A2"}
OtherCoinId == "0xc011"
None == [kind |-> "None"]

\* The digest of an object's content at a version.
DigestOf(id, v) == [of |-> id, at |-> v]

Owners(v) ==
    {[kind |-> "Shared", initial_shared_version |-> i] : i \in 1..v}
        \cup {[kind |-> "AddressOwner", initial_shared_version |-> 0]}

\* What the ledger may hold under one object id: nothing, or an object at
\* some version; a shared object became shared at a version not above it.
ObjectStates(id) ==
    {None} \cup
    UNION {{[kind |-> "Object", object_id |-> id, version |-> v,
             digest |-> DigestOf(id, v), owner |-> o] : o \in Owners(v)}
           : v \in 1..MaxVersion}

LedgerIds == {game_room_id, object_id, game_card_id}

CoinIds == {OtherCoinId, game_card_id}
Balances == {gas_budget - 1, gas_budget}

\* A page of the coin query: distinct coin objects, in the order returned.
CoinPages ==
    LET Coin(c, b) == [coin_object_id |-> c, version |-> 1,
                       digest |-> DigestOf(c, 1), balance |-> b]
        Orders == UNION {{f \in [1..k -> CoinIds] :
                            \A i, j \in 1..k : i # j => f[i] # f[j]}
                         : k \in 0..Cardinality(CoinIds)}
    IN  UNION {{[i \in DOMAIN o |-> Coin(o[i], bal[i])] : bal \in [DOMAIN o -> Balances]}
               : o \in Orders}

VARIABLES
    pc,                   \* the statement of main about to run
    outcome,              \* how the run ended, and where
    ledger,               \* the network's objects, by id
    sender,               \* from setup_for_write
    coins,                \* the page get_coins returned
    coin,                 \* the gas coin
    ptb,                  \* the ProgrammableTransactionBuilder
    returned,             \* what ptb.input / ptb.command returned, in call order
    object,               \* the response read at lines 63-73
    game_card_object,     \* the response read at lines 93-103
    builder,              \* the plan ptb.finish() returned
    gas_price,
    tx_data,
    keystore,
    signature,
    submissions           \* every transaction handed to execute_transaction_block

vars == <<pc, outcome, ledger, sender, coins, coin, ptb, returned, object,
          game_card_object, builder, gas_price, tx_data, keystore,
          signature, submissions>>

Running == [kind |-> "Running", at |-> "", cause |-> ""]
Ended(kind, at, cause) == [kind |-> kind, at |-> at, cause |-> cause]

\* ------------------------------------------------------------ the builder
Input(i) == [tag |-> "Input", idx |-> i]
Result(i) == [tag |-> "Result", idx |-> i]

\* ptb.input(arg): the argument takes the next place of the input list and
\* the call returns the place it took (main adds two objects of distinct ids).
\* Faulty variant: the new input is placed first, shifting the earlier ones.
input_prepend(b, arg) ==
    [ptb |-> [b EXCEPT !.inputs = <<arg>> \o @], ret |-> Input(Len(b.inputs))]
input(b, arg) ==
    [ptb |-> [b EXCEPT !.inputs = Append(@, arg)], ret |-> Input(Len(b.inputs))]

\* ptb.command(c): the command takes the next place of the command list.
command(b, c) ==
    [ptb |-> [b EXCEPT !.commands = Append(@, c)], ret |-> Result(Len(b.commands))]

\* ptb.finish(): the accumulated lists, as the plan.
\* Faulty variant: the last command is lost.
finish_drop_last(b) ==
    [kind |-> "ProgrammableTransaction", inputs |-> b.inputs,
     commands |-> SubSeq(b.commands, 1, Len(b.commands) - 1)]
finish(b) ==
    [kind |-> "ProgrammableTransaction", inputs |-> b.inputs, commands |-> b.commands]

\* ------------------------------------------------- the values main builds
\* coins.data.into_iter().next().unwrap() on a non-empty page.
\* Faulty variant: the last coin of the page.
first_coin_last(page) == page[Len(page)]
first_coin(page) == page[1]

object_ref(c) == [id |-> c.coin_object_id, version |-> c.version, digest |-> c.digest]

game_room_input(resp) ==
    [kind |-> "SharedObject", id |-> game_room_id,
     initial_shared_version |-> resp.version, mutable |-> is_mutable]

game_card_input(resp) ==
    [kind |-> "ImmOrOwnedObject", id |-> game_card_id,
     version |-> resp.version, digest |-> resp.digest]

MakeMoveVecCmd == [kind |-> "MakeMoveVec", arguments |-> <<Input(1)>>]

\* Faulty variant: the call names its own result.
MoveCallCmd_self ==
    [kind |-> "MoveCall", package |-> package_id, module |-> "gamecards",
     function |-> "create_room", arguments |-> <<Input(0), Result(1)>>]
MoveCallCmd ==
    [kind |-> "MoveCall", package |-> package_id, module |-> "gamecards",
     function |-> "create_room", arguments |-> <<Input(0), Result(0)>>]

new_programmable(sndr, gas, pt, budget, price) ==
    [kind |-> "TransactionData", sender |-> sndr, gas_payment |-> gas, pt |-> pt,
     gas_budget |-> budget, gas_price |-> price]

\* keystore.sign_secure(address, data, intent): a signature binds the signer,
\* the intent and the whole of the data.
\* Faulty variant: only the plan is signed.
sign_secure_plan_only(addr, data, intent) ==
    [kind |-> "Signature", signer |-> addr, intent |-> intent, over |-> data.pt]
sign_secure(addr, data, intent) ==
    [kind |-> "Signature", signer |-> addr, intent |-> intent, over |-> data]

from_data(data, sigs) == [kind |-> "Transaction", data |-> data, tx_signatures |-> sigs]

\* Where main goes when execute_transaction_block(..).await? is an error.
\* Faulty variant: the same transaction is submitted again.
AfterSubmitError_retry == "execute"
AfterSubmitError == "exit"

\* ------------------------------------------------------------------ Init
Init ==
    /\ pc = "setup"
    /\ outcome = Running
    /\ ledger \in [LedgerIds -> UNION {ObjectStates(i) : i \in LedgerIds}]
    /\ \A i \in LedgerIds : ledger[i] \in ObjectStates(i)
    /\ sender = None
    /\ coins = None
    /\ coin = None
    /\ ptb = None
    /\ returned = <<>>
    /\ object = None
    /\ game_card_object = None
    /\ builder = None
    /\ gas_price = 0
    /\ tx_data = None
    /\ keystore = None
    /\ signature = None
    /\ submissions = <<>>

Exit(kind, cause) ==
    /\ outcome' = Ended(kind, pc, cause)
    /\ pc' = "exit"

\* ----------------------------------------------------------------- steps
\* line 43: setup_for_write().await?
Setup ==
    /\ pc = "setup"
    /\ \/ /\ \E a \in Addresses : sender' = a
          /\ pc' = "get_coins"
          /\ UNCHANGED outcome
       \/ /\ Exit("Err", "Setup")
          /\ UNCHANGED sender
    /\ UNCHANGED <<ledger, coins, coin, ptb, returned, object, game_card_object, builder,
                   gas_price, tx_data, keystore, signature, submissions>>

\* lines 46-54: get_coins(sender).await?, the first coin unwrapped, the
\* builder created.
GetCoins ==
    /\ pc = "get_coins"
    /\ \/ /\ Exit("Err", "Unreadable")
          /\ UNCHANGED <<coins, coin, ptb>>
       \/ \E page \in CoinPages :
             /\ coins' = [kind |-> "CoinPage", data |-> page]
             /\ IF Len(page) = 0
                THEN /\ Exit("Panic", "NoCoin")
                     /\ UNCHANGED <<coin, ptb>>
                ELSE /\ coin' = first_coin(page)
                     /\ ptb' = [kind |-> "Builder", inputs |-> <<>>, commands |-> <<>>]
                     /\ pc' = "read_room"
                     /\ UNCHANGED outcome
    /\ UNCHANGED <<ledger, sender, returned, object, game_card_object, builder,
                   gas_price, tx_data, keystore, signature, submissions>>

\* lines 63-76: get_object_with_options(object_id).await?, then
\* object.data.unwrap().version
ReadRoom ==
    /\ pc = "read_room"
    /\ \/ /\ Exit("Err", "Unreadable")
          /\ UNCHANGED object
       \/ /\ object' = [kind |-> "Response", data |-> ledger[object_id]]
          /\ IF ledger[object_id] = None
             THEN Exit("Panic", "NotFound")
             ELSE pc' = "add_room" /\ UNCHANGED outcome
    /\ UNCHANGED <<ledger, sender, coins, coin, ptb, returned, game_card_object, builder,
                   gas_price, tx_data, keystore, signature, submissions>>

\* lines 78-86: the shared reference is built and added as an input.
AddRoomInput ==
    /\ pc = "add_room"
    /\ LET r == input(ptb, game_room_input(object.data))
       IN  ptb' = r.ptb /\ returned' = Append(returned, r.ret)
    /\ pc' = "read_card"
    /\ UNCHANGED <<outcome, ledger, sender, coins, coin, object, game_card_object, builder,
                   gas_price, tx_data, keystore, signature, submissions>>

\* lines 93-108: get_object_with_options(game_card_id).await?, then
\* data.unwrap().version and data.unwrap().digest
ReadCard ==
    /\ pc = "read_card"
    /\ \/ /\ Exit("Err", "Unreadable")
          /\ UNCHANGED game_card_object
       \/ /\ game_card_object' = [kind |-> "Response", data |-> ledger[game_card_id]]
          /\ IF ledger[game_card_id] = None
             THEN Exit("Panic", "NotFound")
             ELSE pc' = "add_card" /\ UNCHANGED outcome
    /\ UNCHANGED <<ledger, sender, coins, coin, ptb, returned, object, builder,
                   gas_price, tx_data, keystore, signature, submissions>>

\* lines 110-114: the owned reference is built and added as an input.
AddCardInput ==
    /\ pc = "add_card"
    /\ LET r == input(ptb, game_card_input(game_card_object.data))
       IN  ptb' = r.ptb /\ returned' = Append(returned, r.ret)
    /\ pc' = "cmd_vec"
    /\ UNCHANGED <<outcome, ledger, sender, coins, coin, object, game_card_object, builder,
                   gas_price, tx_data, keystore, signature, submissions>>

\* lines 118-120
AddMakeMoveVec ==
    /\ pc = "cmd_vec"
    /\ LET r == command(ptb, MakeMoveVecCmd)
       IN  ptb' = r.ptb /\ returned' = Append(returned, r.ret)
    /\ pc' = "cmd_call"
    /\ UNCHANGED <<outcome, ledger, sender, coins, coin, object, game_card_object, builder,
                   gas_price, tx_data, keystore, signature, submissions>>

\* lines 123-134
AddMoveCall ==
    /\ pc = "cmd_call"
    /\ LET r == command(ptb, MoveCallCmd)
       IN  ptb' = r.ptb /\ returned' = Append(returned, r.ret)
    /\ pc' = "finish"
    /\ UNCHANGED <<outcome, ledger, sender, coins, coin, object, game_card_object, builder,
                   gas_price, tx_data, keystore, signature, submissions>>

\* line 137: the builder is consumed; its lists are not touched again.
Finish ==
    /\ pc = "finish"
    /\ builder' = finish(ptb)
    /\ pc' = "gas_price"
    /\ UNCHANGED <<outcome, ledger, sender, coins, coin, ptb, returned, object,
                   game_card_object, gas_price, tx_data, keystore, signature,
                   submissions>>

\* line 142: get_reference_gas_price().await?
GetGasPrice ==
    /\ pc = "gas_price"
    /\ \/ /\ Exit("Err", "Unreadable")
          /\ UNCHANGED gas_price
       \/ /\ \E p \in 1..MaxGasPrice : gas_price' = p
          /\ pc' = "new_tx"
          /\ UNCHANGED outcome
    /\ UNCHANGED <<ledger, sender, coins, coin, ptb, returned, object, game_card_object,
                   builder, tx_data, keystore, signature, submissions>>

\* lines 144-150
NewProgrammable ==
    /\ pc = "new_tx"
    /\ tx_data' = new_programmable(sender, <<object_ref(coin)>>, builder,
                                   gas_budget, gas_price)
    /\ pc' = "keystore"
    /\ UNCHANGED <<outcome, ledger, sender, coins, coin, ptb, returned, object,
                   game_card_object, builder, gas_price, keystore, signature,
                   submissions>>

\* line 154: FileBasedKeystore::new(..)? reads whatever keys the file holds.
LoadKeystore ==
    /\ pc = "keystore"
    /\ \/ /\ Exit("Err", "KeystoreUnreadable")
          /\ UNCHANGED keystore
       \/ /\ \E ks \in SUBSET Addresses :
                keystore' = [kind |-> "Keystore", addresses |-> ks]
          /\ pc' = "sign"
          /\ UNCHANGED outcome
    /\ UNCHANGED <<ledger, sender, coins, coin, ptb, returned, object, game_card_object,
                   builder, gas_price, tx_data, signature, submissions>>

\* line 156: keystore.sign_secure(&sender, &tx_data, Intent::sui_transaction())?
Sign ==
    /\ pc = "sign"
    /\ IF sender \in keystore.addresses
       THEN /\ signature' = sign_secure(sender, tx_data, "sui_transaction")
            /\ pc' = "execute"
            /\ UNCHANGED outcome
       ELSE /\ Exit("Err", "KeyUnavailable")
            /\ UNCHANGED signature
    /\ UNCHANGED <<ledger, sender, coins, coin, ptb, returned, object, game_card_object,
                   builder, gas_price, tx_data, keystore, submissions>>

SubmitResponses ==
    {[kind |-> "Ok", cause |-> ""], [kind |-> "Err", cause |-> "Rejected"],
     [kind |-> "Err", cause |-> "Timeout"]}

\* lines 161-172: the one execute_transaction_block call and its result.
Execute ==
    /\ pc = "execute"
    /\ submissions' = Append(submissions, from_data(tx_data, <<signature>>))
    /\ \E resp \in SubmitResponses :
          IF resp.kind = "Ok"
          THEN /\ outcome' = Ended("Ok", pc, "")
               /\ pc' = "exit"
          ELSE /\ outcome' = Ended("Err", pc, resp.cause)
               /\ pc' = AfterSubmitError
    /\ UNCHANGED <<ledger, sender, coins, coin, ptb, returned, object, game_card_object,
                   builder, gas_price, tx_data, keystore, signature>>

Next ==
    \/ Setup
    \/ GetCoins
    \/ ReadRoom
    \/ AddRoomInput
    \/ ReadCard
    \/ AddCardInput
    \/ AddMakeMoveVec
    \/ AddMoveCall
    \/ Finish
    \/ GetGasPrice
    \/ NewProgrammable
    \/ LoadKeystore
    \/ Sign
    \/ Execute

Spec == Init /\ [][Next]_vars

\* ---------------------------------------------------------------- claims
Submitted == Len(submissions) > 0
HasPlan == builder # None

InBounds(a, nInputs, nEarlier) ==
    /\ a.tag = "Input" => a.idx < nInputs
    /\ a.tag = "Result" => a.idx < nEarlier

\* C1: the k-th ptb.input call returns Input(k-1) and the k-th ptb.command
\* call returns Result(k-1); an index handed out keeps naming the value that
\* call added; in main the shared game room is input 0 and the owned game
\* card is input 1.
C1_IndicesDenseInCallOrder ==
    ptb # None =>
        /\ Len(returned) = Len(ptb.inputs) + Len(ptb.commands)
        /\ \A k \in 1..Len(ptb.inputs) : returned[k] = Input(k - 1)
        /\ \A k \in 1..Len(ptb.commands) :
              returned[Len(ptb.inputs) + k] = Result(k - 1)
        /\ Len(ptb.inputs) >= 1 =>
              /\ ptb.inputs[returned[1].idx + 1].kind = "SharedObject"
              /\ ptb.inputs[returned[1].idx + 1].id = game_room_id
              /\ ptb.inputs[1].id = game_room_id
        /\ Len(ptb.inputs) >= 2 =>
              /\ ptb.inputs[returned[2].idx + 1].kind = "ImmOrOwnedObject"
              /\ ptb.inputs[returned[2].idx + 1].id = game_card_id
              /\ ptb.inputs[2].id = game_card_id

C1_Witness ==
    /\ ptb # None
    /\ returned = <<Input(0), Input(1), Result(0), Result(1)>>

\* C3: in the plan finish() produced, every Input(j) argument names an
\* existing input and every Result(c) argument of the command at position i
\* names a command before position i; in main these are MakeMoveVec[Input(1)]
\* at position 0 and MoveCall[Input(0), Result(0)] at position 1.
C3_PlanIsAcyclic ==
    HasPlan =>
        /\ \A i \in 1..Len(builder.commands) :
              \A n \in 1..Len(builder.commands[i].arguments) :
                 InBounds(builder.commands[i].arguments[n],
                          Len(builder.inputs), i - 1)
        /\ Len(builder.commands) = 2
        /\ builder.commands[1].kind = "MakeMoveVec"
        /\ builder.commands[1].arguments = <<Input(1)>>
        /\ builder.commands[2].kind = "MoveCall"
        /\ builder.commands[2].arguments = <<Input(0), Result(0)>>

C3_Witness ==
    /\ HasPlan
    /\ \E i \in 1..Len(builder.commands) :
          \E n \in 1..Len(builder.commands[i].arguments) :
             builder.commands[i].arguments[n].tag = "Result"

\* C4: the plan finish() returned holds, in order, exactly the inputs and
\* commands added before the call, and the plan inside the packaged and the
\* submitted transaction is that plan.
C4_PlanIsWhatWasAdded ==
    HasPlan =>
        /\ builder.inputs = ptb.inputs
        /\ builder.commands = ptb.commands
        /\ Len(builder.inputs) + Len(builder.commands) = Len(returned)
        /\ tx_data # None => tx_data.pt = builder
        /\ \A i \in 1..Len(submissions) : submissions[i].data.pt = builder

C4_Witness ==
    /\ Submitted
    /\ submissions[1].data.pt = builder
    /\ Len(builder.inputs) = 2
    /\ Len(builder.commands) = 2

\* C5: the Shared reference added as input carries the id of a shared
\* object, the initial shared version of that same object, and the
\* mutability flag the caller chose.
C5_SharedRefCarriesInitialVersion ==
    (/\ ptb # None
     /\ Len(ptb.inputs) >= 1
     /\ ledger[game_room_id] # None
     /\ ledger[game_room_id].owner.kind = "Shared"
     /\ ledger[object_id].owner.kind = "Shared") =>
        /\ ptb.inputs[1].kind = "SharedObject"
        /\ ptb.inputs[1].mutable = is_mutable
        /\ ptb.inputs[1].initial_shared_version =
              ledger[ptb.inputs[1].id].owner.initial_shared_version

\* C6: a failed resolution ends as a typed error returned to the caller
\* (NotFound or Unreadable), with nothing built further, signed or submitted.
C6_ResolutionFailureIsTypedError ==
    outcome.at \in {"read_room", "read_card"} =>
        /\ outcome.kind = "Err"
        /\ outcome.cause \in {"NotFound", "Unreadable"}
        /\ builder = None
        /\ tx_data = None
        /\ signature = None
        /\ submissions = <<>>

\* C7: a signed payload is submitted at most once per run, and an error of
\* the submission (rejected or timed out) ends the run.
C7_SubmittedAtMostOnce ==
    /\ Len(submissions) <= 1
    /\ (outcome.at = "execute" /\ outcome.kind = "Err") =>
          /\ pc = "exit"
          /\ ~ENABLED Next

C7_Witness ==
    /\ outcome = Ended("Err", "execute", "Rejected")
    /\ Len(submissions) = 1

\* C8: when finish() runs, the game room and the game card have both been
\* resolved successfully, and each input holds exactly what its resolution
\* returned.
C8_InputsAreWhatWasResolved ==
    HasPlan =>
        /\ object # None
        /\ object.data # None
        /\ game_card_object # None
        /\ game_card_object.data # None
        /\ builder.inputs[1].id = object.data.object_id
        /\ builder.inputs[1].initial_shared_version = object.data.version
        /\ builder.inputs[2].id = game_card_object.data.object_id
        /\ builder.inputs[2].version = game_card_object.data.version
        /\ builder.inputs[2].digest = game_card_object.data.digest

\* C9: whatever is submitted carries one signature, by the sender, under
\* the transaction intent, over the complete payload (plan, sender, gas
\* reference, budget, price); when the key store holds no key of the sender,
\* signing ends the run as an error and nothing is submitted.
C9_SignedWholeBeforeSubmit ==
    /\ \A i \in 1..Len(submissions) :
          /\ submissions[i].data.sender = sender
          /\ submissions[i].data.gas_payment = <<object_ref(coin)>>
          /\ submissions[i].data.pt = builder
          /\ submissions[i].data.gas_budget = gas_budget
          /\ submissions[i].data.gas_price = gas_price
          /\ Len(submissions[i].tx_signatures) = 1
          /\ submissions[i].tx_signatures[1].over = submissions[i].data
          /\ submissions[i].tx_signatures[1].signer = sender
          /\ submissions[i].tx_signatures[1].intent = "sui_transaction"
    /\ signature = None => ~Submitted
    /\ (keystore # None /\ pc # "sign" /\ sender \notin keystore.addresses) =>
          /\ outcome = Ended("Err", "sign", "KeyUnavailable")
          /\ signature = None
          /\ ~Submitted

C9_Witness ==
    /\ outcome = Ended("Err", "sign", "KeyUnavailable")
    /\ tx_data # None
    /\ ~Submitted

\* C10: the gas reference packaged into the payload is the first coin of
\* the page the coin query returned, whatever its balance and id; when the
\* page is empty the run stops before any input is added, and nothing is
\* built, signed or submitted.
C10_GasIsFirstCoin ==
    /\ tx_data # None => tx_data.gas_payment = <<object_ref(coins.data[1])>>
    /\ \A i \in 1..Len(submissions) :
          submissions[i].data.gas_payment = <<object_ref(coins.data[1])>>
    /\ (coins # None /\ Len(coins.data) = 0) =>
          /\ outcome = Ended("Panic", "get_coins", "NoCoin")
          /\ pc = "exit"
          /\ ptb = None
          /\ returned = <<>>
          /\ builder = None
          /\ tx_data = None
          /\ signature = None
          /\ ~Submitted

\* A submitted transaction whose gas coin cannot cover the budget and is
\* the very object used as the owned input, taken although another coin
\* with enough balance was on the page.
C10_Witness ==
    /\ Submitted
    /\ coin.balance < gas_budget
    /\ submissions[1].data.gas_payment[1].id = builder.inputs[2].id
    /\ Len(coins.data) = 2
    /\ coins.data[2].balance >= gas_budget
====
